---- MODULE Spec2Model ----
(***************************************************************************)
(* State-machine model of the SpreadsheetTable component                   *)
(* (src/src/components/SpreadsheetTable.tsx): the row store `data`, the    *)
(* custom-column registry, the column widths, the single / multi cell      *)
(* selection, the edit session and the context menu, with one action per   *)
(* event handler of the component, together with the state of App that    *)
(* it receives as props (hidden fields, sort, filter, search term) and the *)
(* view `processedData` derived from them.  A handler is enabled whenever  *)
(* the conditions in its code (and in the JSX that renders its control)    *)
(* hold; the editor's onBlur, Enter and Escape are the actions saveEdit    *)
(* and cancelEdit, and the document keydown listener is its own actions.   *)
(*                                                                         *)
(* JavaScript strings are modelled as sequences of one-character strings   *)
(* so that trim / toLowerCase / replace(/\s+/g,'') are computed, not       *)
(* assumed.  Object keys (field names) are TLA+ strings obtained by        *)
(* joining such a sequence.  A nullable state (`{row,col} | null`) is a    *)
(* sequence of length 0 (null) or 1.                                       *)
(***************************************************************************)
EXTENDS Integers, Sequences, FiniteSets, TLC

VARIABLES data, customColumns, columnWidths, selectedCell, selectedCells,
          isMultiSelect, editingCell, editValue, contextMenu,
          hiddenFields, sortField, sortOrder, filterField, filterValue,
          searchTerm

\* the state of App that SpreadsheetTable receives as props
props == <<hiddenFields, sortField, sortOrder, filterField, filterValue,
           searchTerm>>

vars == <<data, customColumns, columnWidths, selectedCell, selectedCells,
          isMultiSelect, editingCell, editValue, contextMenu, props>>

-----------------------------------------------------------------------------
(* Bounds of the exploration                                               *)

MaxRows == 3

MaxId == 4

MaxCustom == 2

MaxSelected == 2

MaxHidden == 1

\* the exploration stops moving the selection right at this column index
MaxCol == 11

\* the longest row store whose sorted view is explored
MaxSortRows == 7

-----------------------------------------------------------------------------
(* JavaScript values                                                       *)

NULL == <<>>

Some(v) == <<v>>

\* Math.max() of no arguments is -Infinity, and -Infinity + 1 is -Infinity.
NegInfinity == -1

MathMax(S) == IF S = {} THEN NegInfinity
              ELSE CHOOSE m \in S : \A n \in S : n <= m

Plus(a, n) == IF a = NegInfinity THEN NegInfinity ELSE a + n

EmptyString == <<>>

UpperCase == <<"A","B","C","D","E","F","G","H","I","J","K","L","M",
               "N","O","P","Q","R","S","T","U","V","W","X","Y","Z">>

LowerCase == <<"a","b","c","d","e","f","g","h","i","j","k","l","m",
               "n","o","p","q","r","s","t","u","v","w","x","y","z">>

ToLowerChar(c) == IF \E i \in 1..26 : UpperCase[i] = c
                  THEN LowerCase[CHOOSE i \in 1..26 : UpperCase[i] = c]
                  ELSE c

\* String.prototype.toLowerCase
ToLowerCase(s) == [i \in 1..Len(s) |-> ToLowerChar(s[i])]

\* the characters matched by \s
IsSpace(c) == c \in {" ", "\t", "\n"}

\* s.replace(/\s+/g, '')
RemoveSpaces(s) == SelectSeq(s, LAMBDA c : ~IsSpace(c))

RECURSIVE TrimStart(_)
TrimStart(s) == IF s # <<>> /\ IsSpace(Head(s)) THEN TrimStart(Tail(s)) ELSE s

RECURSIVE TrimEnd(_)
TrimEnd(s) == IF s # <<>> /\ IsSpace(s[Len(s)])
              THEN TrimEnd(SubSeq(s, 1, Len(s) - 1)) ELSE s

\* String.prototype.trim
Trim(s) == TrimEnd(TrimStart(s))

RECURSIVE Join(_)
\* the object key a string denotes
Join(s) == IF s = <<>> THEN "" ELSE Head(s) \o Join(Tail(s))

\* col.toLowerCase().replace(/\s+/g, '') used as a property name
FieldName(col) == Join(RemoveSpaces(ToLowerCase(col)))

\* { ...row, [field]: value }
Put(row, field, value) ==
    [k \in (DOMAIN row) \cup {field} |-> IF k = field THEN value ELSE row[k]]

\* delete row[field]
Remove(row, field) == [k \in (DOMAIN row) \ {field} |-> row[k]]

\* Array.prototype.map
Map(s, F(_)) == [i \in 1..Len(s) |-> F(s[i])]

\* Array.prototype.splice(position, 0, item) on a copy, position >= 0
Splice(s, position, item) ==
    LET p == IF position > Len(s) THEN Len(s) ELSE position
    IN  SubSeq(s, 1, p) \o <<item>> \o SubSeq(s, p + 1, Len(s))

\* Array.prototype.filter((_, i) => i !== index), index 0-based
RemoveAt(s, index) ==
    [i \in 1..(IF index >= 0 /\ index < Len(s) THEN Len(s) - 1 ELSE Len(s)) |->
        IF index >= 0 /\ i > index THEN s[i + 1] ELSE s[i]]

Range(s) == {s[i] : i \in 1..Len(s)}

-----------------------------------------------------------------------------
(* Literals                                                                *)

NeedToStart == <<"n","e","e","d"," ","t","o"," ","s","t","a","r","t">>

Complete == <<"c","o","m","p","l","e","t","e">>

Medium == <<"M","e","d","i","u","m">>

High == <<"H","i","g","h">>

\* new Date().toLocaleDateString('en-GB'): DD/MM/YYYY
Today == <<"0","2","/","1","1","/","2","0","2","6">>

-----------------------------------------------------------------------------
(* Column registry                                                         *)

headers == <<"Job Request", "Submitted", "Status", "Submitter", "URL",
             "Assigned", "Priority", "Due Date", "Est. Value">>

fields == <<"jobRequest", "submitted", "status", "submitter", "url",
            "assigned", "priority", "dueDate", "estValue">>

allHeaders == headers \o Map(customColumns, Join)

allFields == fields \o Map(customColumns, FieldName)

visibleFields == SelectSeq(allFields, LAMBDA f : f \notin hiddenFields)

visibleHeaders ==
    LET idx == SelectSeq([i \in 1..Len(allHeaders) |-> i],
                         LAMBDA i : allFields[i] \notin hiddenFields)
    IN  [j \in 1..Len(idx) |-> allHeaders[idx[j]]]

\* visibleFields[colIndex]; an out-of-range index reads undefined, which as
\* a computed property name is the key "undefined"
VisibleField(colIndex) ==
    IF colIndex >= 0 /\ colIndex < Len(visibleFields)
    THEN visibleFields[colIndex + 1] ELSE "undefined"

-----------------------------------------------------------------------------
(* Row store                                                               *)

Ids(d) == {d[i].id : i \in 1..Len(d)}

\* the sample rows the component is constructed with
mockSpreadsheetData ==
    << [id |-> 1, jobRequest |-> <<"a">>, submitted |-> <<>>,
        status |-> Complete, submitter |-> <<>>, url |-> <<>>,
        assigned |-> <<>>, priority |-> High, dueDate |-> <<>>,
        estValue |-> <<>>],
       [id |-> 2, jobRequest |-> <<"b">>, submitted |-> <<>>,
        status |-> NeedToStart, submitter |-> <<>>, url |-> <<>>,
        assigned |-> <<>>, priority |-> Medium, dueDate |-> <<>>,
        estValue |-> <<>>] >>

\* String(row[field] || '')
CellString(row, field) ==
    IF field \in DOMAIN row THEN row[field] ELSE EmptyString

\* String.prototype.includes
Includes(s, t) ==
    \E i \in 1..(Len(s) - Len(t) + 1) : SubSeq(s, i, i + Len(t) - 1) = t

\* FilterKeeps that compares with the filter value as it was typed
FilterKeeps_CaseSensitive(row) ==
    LET cellValue == ToLowerCase(CellString(row, filterField[1]))
    IN  IF filterField[1] \in {"submitted", "dueDate"}
        THEN cellValue = filterValue
        ELSE Includes(cellValue, filterValue)

\* a row kept by filtered.filter(...)
FilterKeeps(row) ==
    LET cellValue == ToLowerCase(CellString(row, filterField[1]))
    IN  IF filterField[1] \in {"submitted", "dueDate"}
        THEN cellValue = ToLowerCase(filterValue)
        ELSE Includes(cellValue, ToLowerCase(filterValue))

\* let filtered = [...data]; if (filterField && filterValue) filtered = ...
filtered ==
    IF filterField # NULL /\ filterValue # EmptyString
    THEN SelectSeq(data, FilterKeeps)
    ELSE data

\* printable ASCII characters in code-unit order
CodeUnits ==
    << " ", "!", "#", "$", "%", "&", "'", "(", ")", "*", "+", ",", "-",
       ".", "/", "0", "1", "2", "3", "4", "5", "6", "7", "8", "9", ":", ";",
       "<", "=", ">", "?", "@", "A", "B", "C", "D", "E", "F", "G", "H", "I",
       "J", "K", "L", "M", "N", "O", "P", "Q", "R", "S", "T", "U", "V", "W",
       "X", "Y", "Z", "[", "]", "^", "_", "a", "b", "c", "d", "e",
       "f", "g", "h", "i", "j", "k", "l", "m", "n", "o", "p", "q", "r", "s",
       "t", "u", "v", "w", "x", "y", "z", "{", "|", "}", "~" >>

CodeUnit(c) == CHOOSE i \in 1..Len(CodeUnits) : CodeUnits[i] = c

RECURSIVE StringLess(_, _)
\* a < b on two strings: code-unit-wise, a proper prefix is smaller
StringLess(a, b) ==
    IF b = <<>> THEN FALSE
    ELSE IF a = <<>> THEN TRUE
    ELSE IF Head(a) # Head(b) THEN CodeUnit(Head(a)) < CodeUnit(Head(b))
    ELSE StringLess(Tail(a), Tail(b))

Digits == <<"0", "1", "2", "3", "4", "5", "6", "7", "8", "9">>

IsDigit(c) == \E i \in 1..10 : Digits[i] = c

DigitValue(c) == (CHOOSE i \in 1..10 : Digits[i] = c) - 1

AllDigits(s) == s # <<>> /\ \A i \in 1..Len(s) : IsDigit(s[i])

RECURSIVE NumberValue(_)
NumberValue(s) ==
    IF s = <<>> THEN 0
    ELSE 10 * NumberValue(SubSeq(s, 1, Len(s) - 1)) + DigitValue(s[Len(s)])

\* String.prototype.indexOf(separator) + 1: 0 when there is none
IndexOf(s, separator) ==
    IF \E i \in 1..Len(s) : s[i] = separator
    THEN CHOOSE i \in 1..Len(s) :
            s[i] = separator /\ \A j \in 1..(i - 1) : s[j] # separator
    ELSE 0

RECURSIVE Split(_, _)
RECURSIVE SplitAt(_, _, _)
\* String.prototype.split(separator)
Split(s, separator) == SplitAt(s, separator, IndexOf(s, separator))

SplitAt(s, separator, i) ==
    IF i = 0 THEN <<s>>
    ELSE <<SubSeq(s, 1, i - 1)>> \o Split(SubSeq(s, i + 1, Len(s)), separator)

\* Array.prototype.reverse
Reverse(s) == [i \in 1..Len(s) |-> s[Len(s) + 1 - i]]

RECURSIVE JoinWith(_, _)
\* Array.prototype.join(separator)
JoinWith(parts, separator) ==
    IF parts = <<>> THEN <<>>
    ELSE IF Len(parts) = 1 THEN parts[1]
    ELSE parts[1] \o <<separator>> \o JoinWith(Tail(parts), separator)

\* the time value that is not a number
NaN == -2

\* a calendar day as a number that grows with time
DayNumber(year, month, day) == (year * 12 + (month - 1)) * 31 + (day - 1)

\* the time of the date whose year, month and day are the digit strings of
\* parts; NaN when one is not a number or is out of range
DateOfParts(parts, wellFormed) ==
    IF /\ wellFormed
       /\ \A i \in 1..3 : AllDigits(parts[i])
       /\ NumberValue(parts[2]) \in 1..12
       /\ NumberValue(parts[3]) \in 1..28
    THEN DayNumber(NumberValue(parts[1]), NumberValue(parts[2]), NumberValue(parts[3]))
    ELSE NaN

\* the date of a string split at "-" (iso) and at "/" (legacy)
DateOfForms(iso, legacy) ==
    IF Len(iso) = 3
    THEN DateOfParts(iso, Len(iso[1]) = 4 /\ Len(iso[2]) = 2 /\ Len(iso[3]) = 2)
    ELSE IF Len(legacy) = 3
    THEN DateOfParts(<<legacy[3], legacy[1], legacy[2]>>, TRUE)
    ELSE NaN

\* new Date(s).getTime() in days: s is read as the ISO form YYYY-MM-DD, else
\* as the legacy form MM/DD/YYYY, else it is an Invalid Date.  The strings
\* explored are of these forms or hold no digit, and days stay below 29.
DateTime(s) == DateOfForms(Split(s, "-"), Split(s, "/"))

\* new Date(aValue.split('-').reverse().join('-'))
DateKey(value) == DateTime(JoinWith(Reverse(Split(value, "-")), "-"))

RECURSIVE LeadingDigits(_)
LeadingDigits(s) ==
    IF s # <<>> /\ IsDigit(Head(s)) THEN <<Head(s)>> \o LeadingDigits(Tail(s))
    ELSE <<>>

\* parseFloat(t) || 0 for t without leading white space
SignedNumber(t) ==
    IF t # <<>> /\ Head(t) = "-" THEN 0 - NumberValue(LeadingDigits(Tail(t)))
    ELSE IF t # <<>> /\ Head(t) = "+" THEN NumberValue(LeadingDigits(Tail(t)))
    ELSE NumberValue(LeadingDigits(t))

\* parseFloat(String(aValue).replace(/,/g, '')) || 0 on the strings explored:
\* an optional sign and digits, then anything that is not a fraction
NumberKey(value) == SignedNumber(TrimStart(SelectSeq(value, LAMBDA c : c # ",")))

\* priorityOrder[aValue] || 0
PriorityKey(value) ==
    IF value = High THEN 3
    ELSE IF value = Medium THEN 2
    ELSE IF value = <<"L","o","w">> THEN 1
    ELSE 0

\* String(aValue): a missing field reads "undefined"
StringOf(row, field) ==
    IF field \in DOMAIN row THEN row[field]
    ELSE <<"u","n","d","e","f","i","n","e","d">>

\* aValue / bValue: the sort key of a row under the sort field (the date
\* fields are present in every row explored: split on a missing one throws)
SortKey(row) ==
    LET f == sortField[1]
    IN  IF f \in {"submitted", "dueDate"} THEN DateKey(row[f])
        ELSE IF f = "estValue" THEN NumberKey(StringOf(row, f))
        ELSE IF f = "priority" THEN PriorityKey(CellString(row, f))
        ELSE ToLowerCase(StringOf(row, f))

\* aValue < bValue: false when either is the time of an Invalid Date
KeyLess(aValue, bValue) ==
    IF sortField[1] \in {"submitted", "dueDate"}
    THEN aValue # NaN /\ bValue # NaN /\ aValue < bValue
    ELSE IF sortField[1] \in {"estValue", "priority"} THEN aValue < bValue
    ELSE StringLess(aValue, bValue)

\* the comparator handed to filtered.sort, on the keys of a and b
Compare(aValue, bValue) ==
    IF KeyLess(aValue, bValue) THEN (IF sortOrder = Some("asc") THEN -1 ELSE 1)
    ELSE IF KeyLess(bValue, aValue) THEN (IF sortOrder = Some("asc") THEN 1 ELSE -1)
    ELSE 0

RECURSIVE InsertionPoint(_, _, _, _)
\* the binary search of the engine's insertion sort over the keys: the index
\* in sorted[left+1 .. right] after which pivot is placed
InsertionPoint(sorted, pivot, left, right) ==
    IF left >= right THEN left
    ELSE LET mid == left + ((right - left) \div 2)
         IN  IF Compare(pivot, sorted[mid + 1]) < 0
             THEN InsertionPoint(sorted, pivot, left, mid)
             ELSE InsertionPoint(sorted, pivot, mid + 1, right)

RECURSIVE RunLength(_, _, _)
\* the length of the run the keys start with: strictly descending when
\* descending is TRUE, else non-descending
RunLength(keys, n, descending) ==
    IF n >= Len(keys) THEN n
    ELSE IF (Compare(keys[n + 1], keys[n]) < 0) = descending
    THEN RunLength(keys, n + 1, descending)
    ELSE n

\* s with the element at start+1 moved to left+1
Move(s, left, start) ==
    SubSeq(s, 1, left) \o <<s[start + 1]>> \o SubSeq(s, left + 1, start)
        \o SubSeq(s, start + 2, Len(s))

RECURSIVE InsertFrom(_, _, _)
RECURSIVE InsertAt(_, _, _, _)
\* binary insertion of the elements from start+1 on into the sorted prefix;
\* order lists the positions of the elements, keys their keys in that order
InsertFrom(order, keys, start) ==
    IF start >= Len(order) THEN order
    ELSE InsertAt(order, keys, start, InsertionPoint(keys, keys[start + 1], 0, start))

InsertAt(order, keys, start, left) ==
    InsertFrom(Move(order, left, start), Move(keys, left, start), start + 1)

\* the leading run of t made ascending
MakeRun(t, run, descending) ==
    IF descending THEN Reverse(SubSeq(t, 1, run)) \o SubSeq(t, run + 1, Len(t))
    ELSE t

\* the positions of the elements in sorted order, given the leading run
OrderAfterRun(keys, run, descending) ==
    InsertFrom(MakeRun([i \in 1..Len(keys) |-> i], run, descending),
               MakeRun(keys, run, descending), run)

OrderFromRun(keys, descending) ==
    OrderAfterRun(keys, RunLength(keys, 2, descending), descending)

\* the positions of the elements in the order sort leaves them in
SortedOrder(keys) == OrderFromRun(keys, Compare(keys[2], keys[1]) < 0)

Permute(s, order) == [i \in 1..Len(s) |-> s[order[i]]]

\* Array.prototype.sort(compare) on a short array: the leading run is found
\* (and reversed when it descends), the rest is inserted by binary search
Sort(s) ==
    IF Len(s) < 2 THEN s
    ELSE Permute(s, SortedOrder([i \in 1..Len(s) |-> SortKey(s[i])]))

\* the rows the table renders: data filtered, then sorted
processedData ==
    IF sortField # NULL /\ sortOrder # NULL THEN Sort(filtered) ELSE filtered

\* cellMatchesSearch(row, fieldName)
cellMatchesSearch(row, fieldName) ==
    /\ Trim(searchTerm) # EmptyString
    /\ Includes(ToLowerCase(CellString(row, fieldName)), ToLowerCase(searchTerm))

\* searchResultsCount
searchResultsCount ==
    IF Trim(searchTerm) = EmptyString THEN 0
    ELSE Cardinality({ <<i, c>> \in (1..Len(processedData)) \X (1..Len(visibleFields)) :
                          cellMatchesSearch(processedData[i], visibleFields[c]) })

RECURSIVE WithCustomFields(_, _)
\* customColumns.forEach(col => newRow[fieldName] = '')
WithCustomFields(row, cols) ==
    IF cols = <<>> THEN row
    ELSE WithCustomFields(Put(row, FieldName(Head(cols)), EmptyString), Tail(cols))

NewId(d) == Plus(MathMax(Ids(d)), 1)

NewRow(d) ==
    WithCustomFields(
        [id |-> NewId(d), jobRequest |-> EmptyString, submitted |-> Today,
         status |-> NeedToStart, submitter |-> EmptyString, url |-> EmptyString,
         assigned |-> EmptyString, priority |-> Medium, dueDate |-> EmptyString,
         estValue |-> EmptyString],
        customColumns)

\* the exploration stops growing the store at MaxRows rows and MaxId ids
CanInsert(n) == Len(data) + n <= MaxRows /\ Plus(MathMax(Ids(data)), n) <= MaxId

-----------------------------------------------------------------------------
Init ==
    /\ data = mockSpreadsheetData
    /\ customColumns = <<>>
    /\ columnWidths = [i \in 1..15 |-> 160]
    /\ selectedCell = NULL
    /\ selectedCells = {}
    /\ isMultiSelect = FALSE
    /\ editingCell = NULL
    /\ editValue = EmptyString
    /\ contextMenu = NULL
    /\ hiddenFields = {}
    /\ sortField = NULL
    /\ sortOrder = NULL
    /\ filterField = NULL
    /\ filterValue = EmptyString
    /\ searchTerm = EmptyString

-----------------------------------------------------------------------------
(* Inputs of the exploration                                               *)

\* what prompt('Enter new column name:') returns; <<>> stands for both the
\* empty string and null (Cancel), which the handlers treat alike
PromptInputs == { EmptyString, <<" ">>, <<"A","b">>, <<" ","a"," ","B">>,
                  <<"S","t","a","t","u","s">> }

\* what the user types into the cell editor
EditInputs == { EmptyString, <<"x">> }

\* the fields toggled in the Hide-fields dropdown
HideChoices == { "jobRequest", "estValue" }

\* the entries chosen in the Sort dropdown; <<>> is its "None" entry
SortChoices == { NULL, Some("status"), Some("priority"), Some("estValue"),
                 Some("dueDate") }

\* the pending filter of the Filter dropdown when Apply is pressed
FilterChoices == { NULL, Some("status"), Some("priority"), Some("dueDate") }

FilterInputs == { EmptyString, <<" ">>, <<"T">>, <<"h","i","g","h">>,
                  <<"0","5","-","0","1","-","2","0","2","4">> }

\* what the search box hands to onSearch
SearchInputs == { EmptyString, <<" ">>, <<"A">>, <<"x">> }

\* the columns the pointer is moved over: the first one and the last ones
PointerCols ==
    {c \in 0..(Len(visibleFields) - 1) : c = 0 \/ c >= Len(fields) - 1}

RenderedRowIndexes == 0..(Len(processedData) - 1)

\* the fields in which the rows of the stores explored differ: a row as the
\* sample data holds it, a row as addRow makes it with an amount typed in, a
\* row with no amount, and a row whose priority was cleared
RowProfiles ==
    << [submitted |-> <<"1","5","-","1","1","-","2","0","2","4">>, status |-> Complete, priority |-> High,
        dueDate |-> <<"0","5","-","0","1","-","2","0","2","4">>, estValue |-> <<"1",",","2","0","0">>],
       [submitted |-> Today, status |-> NeedToStart, priority |-> Medium,
        dueDate |-> EmptyString, estValue |-> <<"3","0","0">>],
       [submitted |-> <<"1","5","-","1","1","-","2","0","2","4">>, status |-> <<"i","n","-","p","r","o","g","r","e","s","s">>, priority |-> <<"L","o","w">>,
        dueDate |-> <<"0","3","-","0","1","-","2","0","2","4">>, estValue |-> EmptyString],
       [submitted |-> <<"1","6","-","1","1","-","2","0","2","4">>, status |-> <<"b","l","o","c","k","e","d">>, priority |-> EmptyString,
        dueDate |-> <<"0","1","-","0","1","-","2","0","2","4">>, estValue |-> <<"3","0","0">>] >>

\* a SpreadsheetRow with the id rowId and the fields of profile
ProfileRow(rowId, profile) ==
    [id |-> rowId, jobRequest |-> <<"a">>, submitted |-> profile.submitted,
     status |-> profile.status, submitter |-> EmptyString, url |-> EmptyString,
     assigned |-> EmptyString, priority |-> profile.priority,
     dueDate |-> profile.dueDate, estValue |-> profile.estValue]

\* the row stores of n rows with the ids 1..n
StoresOfLength(n) ==
    { [i \in 1..n |-> ProfileRow(i, RowProfiles[choice[i]])] :
          choice \in [1..n -> 1..Len(RowProfiles)] }

-----------------------------------------------------------------------------
(* Cell access                                                             *)

\* array.find(row => row.id === rowId): <<>> when there is none
Find(d, rowId) ==
    IF \E i \in 1..Len(d) : d[i].id = rowId
    THEN Some(d[CHOOSE i \in 1..Len(d) :
                  d[i].id = rowId /\ \A j \in 1..(i - 1) : d[j].id # rowId])
    ELSE NULL

\* array.findIndex(row => row.id === rowId), 0-based, -1 when there is none
FindIndex(d, rowId) ==
    IF \E i \in 1..Len(d) : d[i].id = rowId
    THEN (CHOOSE i \in 1..Len(d) :
             d[i].id = rowId /\ \A j \in 1..(i - 1) : d[j].id # rowId) - 1
    ELSE -1

getCellValue(rowId, colIndex) ==
    LET dataRow == Find(processedData, rowId)
    IN  IF dataRow = NULL THEN EmptyString
        ELSE CellString(dataRow[1], VisibleField(colIndex))

\* prevData.map(row => row.id === rowId ? { ...row, [field]: value } : row)
setCellValue(d, rowId, colIndex, value) ==
    Map(d, LAMBDA row : IF row.id = rowId
                        THEN Put(row, VisibleField(colIndex), value) ELSE row)

\* Object.keys(clearedRow).forEach(key => key !== 'id' && clearedRow[key] = '')
Cleared(row) == [k \in DOMAIN row |-> IF k = "id" THEN row[k] ELSE EmptyString]

\* the editor <input>/<select> is on screen
EditorRendered ==
    /\ editingCell # NULL
    /\ editingCell[1].row \in Ids(processedData)
    /\ editingCell[1].col < Len(visibleHeaders)

-----------------------------------------------------------------------------
(* State updates of the helpers the handlers call                          *)

\* addRow(): setData([...data, newRow])
addRowData == Append(data, NewRow(data))

\* addRowAt that appends the row whatever the position
addRowAtData_AlwaysAppends(position) == Append(data, NewRow(data))

\* addRowAt(position)
addRowAtData(position) ==
    IF position < Len(data) THEN Splice(data, position, NewRow(data))
    ELSE Append(data, NewRow(data))

\* deleteRow(rowId): setData(data.filter(row => row.id !== rowId))
deleteRowData(rowId) == SelectSeq(data, LAMBDA row : row.id # rowId)

\* duplicateRow(rowId)
duplicateRowData(rowId) ==
    LET rowToDuplicate == Find(data, rowId)
    IN  IF rowToDuplicate # NULL
        THEN Append(data, Put(rowToDuplicate[1], "id", NewId(data)))
        ELSE data

\* clearRow(rowId)
clearRowData(rowId) ==
    Map(data, LAMBDA row : IF row.id = rowId THEN Cleared(row) ELSE row)

\* clearCell(rowId, colIndex)
clearCellData(rowId, colIndex) == setCellValue(data, rowId, colIndex, EmptyString)

\* clearColumn(colIndex)
clearColumnData(colIndex) ==
    Map(data, LAMBDA row : Put(row, VisibleField(colIndex), EmptyString))

\* columnName && columnName.trim()
PromptAccepted(columnName) == columnName # EmptyString /\ Trim(columnName) # EmptyString

\* the exploration stops growing the registry at MaxCustom custom columns
CanAddColumn(columnName) ==
    PromptAccepted(columnName) => Len(customColumns) < MaxCustom

\* addColumnUpdate that registers the column and leaves the rows as they are
addColumnUpdate_NoBackfill(columnName) ==
    IF PromptAccepted(columnName)
    THEN /\ customColumns' = Append(customColumns, Trim(columnName))
         /\ data' = data
         /\ columnWidths' = Append(columnWidths, 160)
    ELSE UNCHANGED <<customColumns, data, columnWidths>>

\* addColumn() with the prompt answered columnName
addColumnUpdate(columnName) ==
    IF PromptAccepted(columnName)
    THEN /\ customColumns' = Append(customColumns, Trim(columnName))
         /\ data' = Map(data, LAMBDA row :
                            Put(row, FieldName(Trim(columnName)), EmptyString))
         /\ columnWidths' = Append(columnWidths, 160)
    ELSE UNCHANGED <<customColumns, data, columnWidths>>

\* addColumnAt(position) with the prompt answered columnName
addColumnAtUpdate(position, columnName) ==
    IF PromptAccepted(columnName)
    THEN /\ customColumns' =
                IF position < Len(allHeaders)
                THEN Splice(customColumns, position, Trim(columnName))
                ELSE Append(customColumns, Trim(columnName))
         /\ data' = Map(data, LAMBDA row :
                            Put(row, FieldName(Trim(columnName)), EmptyString))
         /\ columnWidths' =
                IF position < Len(columnWidths)
                THEN Splice(columnWidths, position, 160)
                ELSE Append(columnWidths, 160)
    ELSE UNCHANGED <<customColumns, data, columnWidths>>

\* deleteColumn(colIndex) with confirm() answered confirmed
deleteColumnUpdate(colIndex, confirmed) ==
    LET customColIndex == colIndex - Len(fields)
    IN  IF colIndex < Len(fields)
        THEN UNCHANGED <<customColumns, data, columnWidths>>
        ELSE IF customColIndex >= 0 /\ customColIndex < Len(customColumns) /\ confirmed
        THEN /\ customColumns' = RemoveAt(customColumns, customColIndex)
             /\ data' = Map(data, LAMBDA row :
                    Remove(row, FieldName(customColumns[customColIndex + 1])))
             /\ columnWidths' = RemoveAt(columnWidths, colIndex)
        ELSE UNCHANGED <<customColumns, data, columnWidths>>

-----------------------------------------------------------------------------
(* Pointer handlers                                                        *)

\* the "+" row button
addRow ==
    /\ CanInsert(1)
    /\ data' = addRowData
    /\ UNCHANGED <<customColumns, columnWidths, selectedCell, selectedCells,
                   isMultiSelect, editingCell, editValue, contextMenu, props>>

\* the "+" column button
addColumn(columnName) ==
    /\ CanAddColumn(columnName)
    /\ addColumnUpdate(columnName)
    /\ UNCHANGED <<selectedCell, selectedCells, isMultiSelect, editingCell,
                   editValue, contextMenu, props>>

\* td onClick
handleCellSelection(rowId, colIndex, ctrlKey) ==
    /\ rowId \in Ids(processedData)
    /\ colIndex \in PointerCols
    /\ IF ctrlKey
       THEN LET cellId == <<rowId, colIndex>>
                newSelectedCells == IF cellId \in selectedCells
                                    THEN selectedCells \ {cellId}
                                    ELSE selectedCells \cup {cellId}
            IN  /\ Cardinality(selectedCells) <= MaxSelected
                /\ Cardinality(newSelectedCells) <= MaxSelected
                /\ selectedCells' = newSelectedCells
                /\ isMultiSelect' = (Cardinality(newSelectedCells) > 0)
                /\ UNCHANGED selectedCell
       ELSE /\ selectedCells' = {}
            /\ isMultiSelect' = FALSE
            /\ selectedCell' = Some([row |-> rowId, col |-> colIndex])
    /\ UNCHANGED <<data, customColumns, columnWidths, editingCell, editValue,
                   contextMenu, props>>

\* td onDoubleClick
handleCellDoubleClick(rowId, colIndex) ==
    /\ rowId \in Ids(processedData)
    /\ colIndex \in PointerCols
    /\ editingCell' = Some([row |-> rowId, col |-> colIndex])
    /\ editValue' = getCellValue(rowId, colIndex)
    /\ selectedCell' = Some([row |-> rowId, col |-> colIndex])
    /\ UNCHANGED <<data, customColumns, columnWidths, selectedCells,
                   isMultiSelect, contextMenu, props>>

\* the toolbar's Delete Row button
toolbarDeleteRow ==
    /\ selectedCell # NULL /\ ~isMultiSelect
    /\ data' = deleteRowData(selectedCell[1].row)
    /\ UNCHANGED <<customColumns, columnWidths, selectedCell, selectedCells,
                   isMultiSelect, editingCell, editValue, contextMenu, props>>

-----------------------------------------------------------------------------
(* The cell editor                                                         *)

\* onChange of the editor
handleEditChange(value) ==
    /\ EditorRendered
    /\ editValue' = value
    /\ UNCHANGED <<data, customColumns, columnWidths, selectedCell, selectedCells,
                   isMultiSelect, editingCell, contextMenu, props>>

\* saveEdit: onBlur of the editor, or Enter in it
saveEdit ==
    /\ EditorRendered
    /\ data' = setCellValue(data, editingCell[1].row, editingCell[1].col, editValue)
    /\ editingCell' = NULL
    /\ editValue' = EmptyString
    /\ UNCHANGED <<customColumns, columnWidths, selectedCell, selectedCells,
                   isMultiSelect, contextMenu, props>>

\* cancelEdit that clears the selection as Escape outside the editor does
cancelEdit_ClearsSelection ==
    /\ EditorRendered
    /\ editingCell' = NULL
    /\ editValue' = EmptyString
    /\ selectedCell' = NULL
    /\ UNCHANGED <<data, customColumns, columnWidths, selectedCells,
                   isMultiSelect, contextMenu, props>>

\* handleKeyDown of the editor, Escape
cancelEdit ==
    /\ EditorRendered
    /\ editingCell' = NULL
    /\ editValue' = EmptyString
    /\ UNCHANGED <<data, customColumns, columnWidths, selectedCell, selectedCells,
                   isMultiSelect, contextMenu, props>>

-----------------------------------------------------------------------------
(* Keyboard shortcuts (the document keydown listener)                      *)

keyCtrlShiftR ==
    /\ editingCell = NULL
    /\ CanInsert(1)
    /\ data' = addRowData
    /\ UNCHANGED <<customColumns, columnWidths, selectedCell, selectedCells,
                   isMultiSelect, editingCell, editValue, contextMenu, props>>

keyCtrlShiftC(columnName) ==
    /\ editingCell = NULL
    /\ CanAddColumn(columnName)
    /\ addColumnUpdate(columnName)
    /\ UNCHANGED <<selectedCell, selectedCells, isMultiSelect, editingCell,
                   editValue, contextMenu, props>>

\* navigateCell: arrows, Enter / Shift+Enter, Tab / Shift+Tab
navigateCell(direction, columnName) ==
    /\ editingCell = NULL
    /\ selectedCell # NULL
    /\ LET row == selectedCell[1].row
           col == selectedCell[1].col
           rowIndex == FindIndex(processedData, row)
       IN  CASE direction = "up" ->
                  /\ selectedCell' = Some([row |-> IF rowIndex > 0
                                                   THEN processedData[rowIndex].id
                                                   ELSE row,
                                           col |-> col])
                  /\ UNCHANGED <<data, customColumns, columnWidths>>
             [] direction = "down" ->
                  IF rowIndex < Len(processedData) - 1
                  THEN /\ selectedCell' = Some([row |-> processedData[rowIndex + 2].id,
                                                col |-> col])
                       /\ UNCHANGED <<data, customColumns, columnWidths>>
                  ELSE /\ CanInsert(1)
                       /\ data' = addRowData
                       /\ selectedCell' = Some([row |-> Plus(MathMax(Ids(data)), 1),
                                                col |-> col])
                       /\ UNCHANGED <<customColumns, columnWidths>>
             [] direction = "left" ->
                  /\ selectedCell' = Some([row |-> row,
                                           col |-> IF col - 1 > 0 THEN col - 1 ELSE 0])
                  /\ UNCHANGED <<data, customColumns, columnWidths>>
             [] direction = "right" ->
                  IF col < Len(visibleFields) - 1
                  THEN /\ selectedCell' = Some([row |-> row, col |-> col + 1])
                       /\ UNCHANGED <<data, customColumns, columnWidths>>
                  ELSE /\ CanAddColumn(columnName)
                       /\ col < MaxCol
                       /\ addColumnUpdate(columnName)
                       /\ selectedCell' = Some([row |-> row, col |-> col + 1])
    /\ UNCHANGED <<selectedCells, isMultiSelect, editingCell, editValue,
                   contextMenu, props>>

\* keyDelete without the listener's early return during an edit session
keyDelete_WhileEditing ==
    /\ selectedCell # NULL
    /\ data' = clearCellData(selectedCell[1].row, selectedCell[1].col)
    /\ UNCHANGED <<customColumns, columnWidths, selectedCell, selectedCells,
                   isMultiSelect, editingCell, editValue, contextMenu, props>>

\* Delete: clear the selected cell
keyDelete ==
    /\ editingCell = NULL
    /\ selectedCell # NULL
    /\ data' = clearCellData(selectedCell[1].row, selectedCell[1].col)
    /\ UNCHANGED <<customColumns, columnWidths, selectedCell, selectedCells,
                   isMultiSelect, editingCell, editValue, contextMenu, props>>

\* Shift+Delete: delete the selected row
keyShiftDelete ==
    /\ editingCell = NULL
    /\ selectedCell # NULL
    /\ data' = deleteRowData(selectedCell[1].row)
    /\ UNCHANGED <<customColumns, columnWidths, selectedCell, selectedCells,
                   isMultiSelect, editingCell, editValue, contextMenu, props>>

\* Escape outside the editor
keyEscape ==
    /\ editingCell = NULL
    /\ selectedCell # NULL
    /\ selectedCell' = NULL
    /\ selectedCells' = {}
    /\ UNCHANGED <<data, customColumns, columnWidths, isMultiSelect, editingCell,
                   editValue, contextMenu, props>>

\* Ctrl+A
selectAll ==
    /\ editingCell = NULL
    /\ selectedCells' = {<<processedData[i].id, c>> :
                            i \in 1..Len(processedData),
                            c \in 0..(Len(visibleFields) - 1)}
    /\ isMultiSelect' = TRUE
    /\ UNCHANGED <<data, customColumns, columnWidths, selectedCell, editingCell,
                   editValue, contextMenu, props>>

-----------------------------------------------------------------------------
(* Context menu                                                            *)

menuItems ==
    [cell |-> {"addRowAbove", "addRowBelow", "addColumnLeft", "addColumnRight",
               "deleteRow", "deleteColumn", "duplicateRow", "clearCell"},
     row |-> {"addRowAbove", "addRowBelow", "deleteRow", "duplicateRow", "clearRow"},
     column |-> {"addColumnLeft", "addColumnRight", "deleteColumn", "clearColumn"}]

\* onContextMenu of a cell, a row number or a column header; an index the
\* menu was opened without is an absent field of the record
handleContextMenu(type, rowIndex, colIndex) ==
    /\ \/ type = "cell" /\ rowIndex \in RenderedRowIndexes /\ colIndex \in PointerCols
          /\ contextMenu' = Some([type |-> type, rowIndex |-> rowIndex,
                                  colIndex |-> colIndex])
       \/ type = "row" /\ rowIndex \in RenderedRowIndexes /\ colIndex = 0
          /\ contextMenu' = Some([type |-> type, rowIndex |-> rowIndex])
       \/ type = "column" /\ rowIndex = 0 /\ colIndex \in PointerCols
          /\ contextMenu' = Some([type |-> type, colIndex |-> colIndex])
    /\ UNCHANGED <<data, customColumns, columnWidths, selectedCell, selectedCells,
                   isMultiSelect, editingCell, editValue, props>>

\* onClose: a press outside the menu
closeContextMenu ==
    /\ contextMenu # NULL
    /\ contextMenu' = NULL
    /\ UNCHANGED <<data, customColumns, columnWidths, selectedCell, selectedCells,
                   isMultiSelect, editingCell, editValue, props>>

\* processedData[rowIndex]?.id, then `if (rowId)`: 0 when there is no such row
RowIdAt(rowIndex) ==
    IF rowIndex >= 0 /\ rowIndex < Len(processedData)
    THEN processedData[rowIndex + 1].id ELSE 0

\* a menu item: handleContextAction(action, {rowIndex, colIndex}), then onClose
handleContextAction(action, columnName, confirmed) ==
    /\ contextMenu # NULL
    /\ action \in menuItems[contextMenu[1].type]
    /\ LET menu == contextMenu[1]
       IN  CASE action = "addRowAbove" ->
                  /\ CanInsert(1)
                  /\ data' = addRowAtData(menu.rowIndex)
                  /\ UNCHANGED <<customColumns, columnWidths>>
             [] action = "addRowBelow" ->
                  /\ CanInsert(1)
                  /\ data' = addRowAtData(menu.rowIndex + 1)
                  /\ UNCHANGED <<customColumns, columnWidths>>
             [] action = "addColumnLeft" ->
                  /\ CanAddColumn(columnName)
                  /\ addColumnAtUpdate(menu.colIndex, columnName)
             [] action = "addColumnRight" ->
                  /\ CanAddColumn(columnName)
                  /\ addColumnAtUpdate(menu.colIndex + 1, columnName)
             [] action = "deleteRow" ->
                  /\ data' = IF RowIdAt(menu.rowIndex) # 0
                             THEN deleteRowData(RowIdAt(menu.rowIndex)) ELSE data
                  /\ UNCHANGED <<customColumns, columnWidths>>
             [] action = "deleteColumn" ->
                  deleteColumnUpdate(menu.colIndex, confirmed)
             [] action = "duplicateRow" ->
                  /\ RowIdAt(menu.rowIndex) # 0 => CanInsert(1)
                  /\ data' = IF RowIdAt(menu.rowIndex) # 0
                             THEN duplicateRowData(RowIdAt(menu.rowIndex)) ELSE data
                  /\ UNCHANGED <<customColumns, columnWidths>>
             [] action = "clearCell" ->
                  /\ data' = IF RowIdAt(menu.rowIndex) # 0
                             THEN clearCellData(RowIdAt(menu.rowIndex), menu.colIndex)
                             ELSE data
                  /\ UNCHANGED <<customColumns, columnWidths>>
             [] action = "clearRow" ->
                  /\ data' = IF RowIdAt(menu.rowIndex) # 0
                             THEN clearRowData(RowIdAt(menu.rowIndex)) ELSE data
                  /\ UNCHANGED <<customColumns, columnWidths>>
             [] action = "clearColumn" ->
                  /\ data' = clearColumnData(menu.colIndex)
                  /\ UNCHANGED <<customColumns, columnWidths>>
    /\ contextMenu' = NULL
    /\ UNCHANGED <<selectedCell, selectedCells, isMultiSelect, editingCell,
                   editValue, props>>

-----------------------------------------------------------------------------
(* Batch actions of the toolbar                                            *)

\* parseInt of the text before the first "-" of `${row.id}-${colIndex}`: the
\* id for an id >= 0; for a negative id that text is empty and the result NaN
ParsedRowId(cellId) == IF cellId[1] < 0 THEN NaN ELSE cellId[1]

uniqueRowIds == {ParsedRowId(cellId) : cellId \in selectedCells}

\* handleBatchAction(action)
handleBatchAction(action, confirmed) ==
    /\ isMultiSelect /\ selectedCells # {}
    /\ CASE action = "deleteRows" ->
              IF confirmed
              THEN /\ data' = SelectSeq(data, LAMBDA row : row.id \notin uniqueRowIds)
                   /\ selectedCells' = {}
              ELSE UNCHANGED <<data, selectedCells>>
         [] action = "duplicateRows" ->
              LET rowsToDuplicate == SelectSeq(data, LAMBDA row : row.id \in uniqueRowIds)
                  newRows == [i \in 1..Len(rowsToDuplicate) |->
                                Put(rowsToDuplicate[i], "id",
                                    Plus(MathMax(Ids(data)), (i - 1) + 1))]
              IN  /\ CanInsert(Len(rowsToDuplicate))
                  /\ data' = data \o newRows
                  /\ selectedCells' = {}
         [] action = "clearRows" ->
              /\ data' = Map(data, LAMBDA row : IF row.id \in uniqueRowIds
                                                THEN Cleared(row) ELSE row)
              /\ selectedCells' = {}
    /\ UNCHANGED <<customColumns, columnWidths, selectedCell, isMultiSelect,
                   editingCell, editValue, contextMenu, props>>

-----------------------------------------------------------------------------
(* Props                                                                   *)

\* App.handleHideFields via HeaderBar.handleFieldVisibilityToggle(fieldKey)
handleFieldVisibilityToggle(fieldKey) ==
    /\ hiddenFields' = IF fieldKey \in hiddenFields
                       THEN hiddenFields \ {fieldKey}
                       ELSE hiddenFields \cup {fieldKey}
    /\ Cardinality(hiddenFields') <= MaxHidden
    /\ UNCHANGED <<data, customColumns, columnWidths, selectedCell, selectedCells,
                   isMultiSelect, editingCell, editValue, contextMenu,
                   sortField, sortOrder, filterField, filterValue, searchTerm>>

\* handleSortSelect whose sort orders the rows of the store themselves
handleSortSelect_SortsStore(field) ==
    /\ IF field = NULL
       THEN sortField' = NULL /\ sortOrder' = NULL
       ELSE IF sortField = field
       THEN IF sortOrder = Some("asc")
            THEN sortField' = field /\ sortOrder' = Some("desc")
            ELSE IF sortOrder = Some("desc")
            THEN sortField' = NULL /\ sortOrder' = NULL
            ELSE sortField' = field /\ sortOrder' = Some("asc")
       ELSE sortField' = field /\ sortOrder' = Some("asc")
    /\ data' = processedData
    /\ UNCHANGED <<customColumns, columnWidths, selectedCell, selectedCells,
                   isMultiSelect, editingCell, editValue, contextMenu,
                   hiddenFields, filterField, filterValue, searchTerm>>

\* App.handleSort via HeaderBar.handleSortSelect(field); <<>> is null
handleSortSelect(field) ==
    /\ IF field = NULL
       THEN sortField' = NULL /\ sortOrder' = NULL
       ELSE IF sortField = field
       THEN IF sortOrder = Some("asc")
            THEN sortField' = field /\ sortOrder' = Some("desc")
            ELSE IF sortOrder = Some("desc")
            THEN sortField' = NULL /\ sortOrder' = NULL
            ELSE sortField' = field /\ sortOrder' = Some("asc")
       ELSE sortField' = field /\ sortOrder' = Some("asc")
    /\ UNCHANGED <<data, customColumns, columnWidths, selectedCell, selectedCells,
                   isMultiSelect, editingCell, editValue, contextMenu,
                   hiddenFields, filterField, filterValue, searchTerm>>

\* App.handleFilter via HeaderBar.handleApplyFilter with the pending choice
handleApplyFilter(pendingFilterField, pendingFilterValue) ==
    /\ IF pendingFilterField # NULL /\ Trim(pendingFilterValue) # EmptyString
       THEN filterField' = pendingFilterField /\ filterValue' = pendingFilterValue
       ELSE filterField' = NULL /\ filterValue' = EmptyString
    /\ UNCHANGED <<data, customColumns, columnWidths, selectedCell, selectedCells,
                   isMultiSelect, editingCell, editValue, contextMenu,
                   hiddenFields, sortField, sortOrder, searchTerm>>

\* App.handleSearch(term)
handleSearch(term) ==
    /\ searchTerm' = term
    /\ UNCHANGED <<data, customColumns, columnWidths, selectedCell, selectedCells,
                   isMultiSelect, editingCell, editValue, contextMenu,
                   hiddenFields, sortField, sortOrder, filterField, filterValue>>

-----------------------------------------------------------------------------
(* Specifications.  Spec is the component with every handler; the others  *)
(* keep the handlers of one part of it, which bounds the exploration.      *)

Next ==
    \/ addRow
    \/ \E columnName \in PromptInputs : addColumn(columnName)
    \/ \E rowId \in Ids(data), colIndex \in PointerCols, ctrlKey \in BOOLEAN :
          handleCellSelection(rowId, colIndex, ctrlKey)
    \/ \E rowId \in Ids(data), colIndex \in PointerCols :
          handleCellDoubleClick(rowId, colIndex)
    \/ toolbarDeleteRow
    \/ \E value \in EditInputs : handleEditChange(value)
    \/ saveEdit
    \/ cancelEdit
    \/ keyCtrlShiftR
    \/ \E columnName \in PromptInputs : keyCtrlShiftC(columnName)
    \/ \E direction \in {"up", "down", "left", "right"}, columnName \in PromptInputs :
          navigateCell(direction, columnName)
    \/ keyDelete
    \/ keyShiftDelete
    \/ keyEscape
    \/ selectAll
    \/ \E type \in {"cell", "row", "column"}, rowIndex \in RenderedRowIndexes \cup {0},
          colIndex \in PointerCols : handleContextMenu(type, rowIndex, colIndex)
    \/ closeContextMenu
    \/ \E action \in UNION {menuItems[t] : t \in DOMAIN menuItems},
          columnName \in PromptInputs, confirmed \in BOOLEAN :
          handleContextAction(action, columnName, confirmed)
    \/ \E action \in {"deleteRows", "duplicateRows", "clearRows"}, confirmed \in BOOLEAN :
          handleBatchAction(action, confirmed)
    \/ \E fieldKey \in HideChoices : handleFieldVisibilityToggle(fieldKey)
    \/ \E field \in SortChoices : handleSortSelect(field)
    \/ \E pendingFilterField \in FilterChoices, pendingFilterValue \in FilterInputs :
          handleApplyFilter(pendingFilterField, pendingFilterValue)
    \/ \E term \in SearchInputs : handleSearch(term)

Spec == Init /\ [][Next]_vars

\* the row store: insertion, duplication and deletion of rows
NextRows ==
    \/ addRow
    \/ keyCtrlShiftR
    \/ \E rowId \in Ids(data), ctrlKey \in BOOLEAN :
          handleCellSelection(rowId, 0, ctrlKey)
    \/ \E direction \in {"up", "down"} : navigateCell(direction, EmptyString)
    \/ keyShiftDelete
    \/ \E rowIndex \in RenderedRowIndexes : handleContextMenu("row", rowIndex, 0)
    \/ \E action \in menuItems["row"] : handleContextAction(action, EmptyString, TRUE)
    \/ \E action \in {"deleteRows", "duplicateRows", "clearRows"}, confirmed \in BOOLEAN :
          handleBatchAction(action, confirmed)

SpecRows == Init /\ [][NextRows]_vars

\* the column registry: adding, deleting and clearing columns
NextColumns ==
    \/ \E columnName \in PromptInputs : addColumn(columnName)
    \/ \E columnName \in PromptInputs : keyCtrlShiftC(columnName)
    \/ addRow
    \/ \E colIndex \in PointerCols : handleContextMenu("column", 0, colIndex)
    \/ closeContextMenu
    \/ \E action \in menuItems["column"], columnName \in PromptInputs,
          confirmed \in BOOLEAN :
          handleContextAction(action, columnName, confirmed)
    \/ \E fieldKey \in HideChoices : handleFieldVisibilityToggle(fieldKey)

SpecColumns == Init /\ [][NextColumns]_vars

\* adding columns by every handler that does, among row insertions and
\* column deletions
NextAddColumn ==
    \/ \E columnName \in PromptInputs : addColumn(columnName)
    \/ \E columnName \in PromptInputs : keyCtrlShiftC(columnName)
    \/ addRow
    \/ \E colIndex \in PointerCols : handleContextMenu("column", 0, colIndex)
    \/ \E action \in {"addColumnLeft", "addColumnRight", "deleteColumn"},
          columnName \in PromptInputs :
          handleContextAction(action, columnName, TRUE)
    \/ handleCellSelection(data[1].id, Len(visibleFields) - 1, FALSE)
    \/ \E columnName \in PromptInputs : navigateCell("right", columnName)

SpecAddColumn == Init /\ [][NextAddColumn]_vars

\* the selection: clicks, keyboard navigation, deletions under a selection
NextSelect ==
    \/ \E rowId \in Ids(data), colIndex \in PointerCols, ctrlKey \in BOOLEAN :
          handleCellSelection(rowId, colIndex, ctrlKey)
    \/ \E direction \in {"up", "down", "left", "right"} :
          navigateCell(direction, EmptyString)
    \/ toolbarDeleteRow
    \/ keyShiftDelete
    \/ keyEscape
    \/ selectAll
    \/ \E confirmed \in BOOLEAN : handleBatchAction("deleteRows", confirmed)
    \/ \E fieldKey \in HideChoices : handleFieldVisibilityToggle(fieldKey)

SpecSelect == Init /\ [][NextSelect]_vars

\* the edit session: begin, type, commit, cancel, and what may happen meanwhile
NextEdit ==
    \/ \E rowId \in Ids(data), colIndex \in PointerCols :
          handleCellDoubleClick(rowId, colIndex)
    \/ \E value \in EditInputs : handleEditChange(value)
    \/ saveEdit
    \/ cancelEdit
    \/ \E rowId \in Ids(data), colIndex \in PointerCols :
          handleCellSelection(rowId, colIndex, FALSE)
    \/ keyEscape
    \/ \E rowIndex \in RenderedRowIndexes : handleContextMenu("row", rowIndex, 0)
    \/ handleContextAction("deleteRow", EmptyString, TRUE)
    \/ \E fieldKey \in HideChoices : handleFieldVisibilityToggle(fieldKey)

SpecEdit == Init /\ [][NextEdit]_vars

\* the edit session over custom columns that come and go
NextEditColumns ==
    \/ \E columnName \in PromptInputs : addColumn(columnName)
    \/ \E colIndex \in PointerCols : handleContextMenu("column", 0, colIndex)
    \/ \E confirmed \in BOOLEAN :
          handleContextAction("deleteColumn", EmptyString, confirmed)
    \/ \E colIndex \in PointerCols :
          handleCellDoubleClick(data[1].id, colIndex)
    \/ \E value \in EditInputs : handleEditChange(value)
    \/ saveEdit
    \/ cancelEdit

SpecEditColumns == Init /\ [][NextEditColumns]_vars

\* the view pipeline over the row stores of up to MaxRows rows: sort, filter
\* and search are chosen in the header bar
InitView ==
    /\ data \in UNION {StoresOfLength(n) : n \in 0..MaxRows}
    /\ customColumns = <<>>
    /\ columnWidths = [i \in 1..15 |-> 160]
    /\ selectedCell = NULL
    /\ selectedCells = {}
    /\ isMultiSelect = FALSE
    /\ editingCell = NULL
    /\ editValue = EmptyString
    /\ contextMenu = NULL
    /\ hiddenFields = {}
    /\ sortField = NULL
    /\ sortOrder = NULL
    /\ filterField = NULL
    /\ filterValue = EmptyString
    /\ searchTerm = EmptyString

NextView ==
    \/ \E field \in SortChoices : handleSortSelect(field)
    \/ \E pendingFilterField \in FilterChoices, pendingFilterValue \in FilterInputs :
          handleApplyFilter(pendingFilterField, pendingFilterValue)
    \/ \E term \in SearchInputs : handleSearch(term)

SpecView == InitView /\ [][NextView]_vars


\* the sort of the row stores of up to MaxSortRows rows
InitSort ==
    /\ data \in UNION {StoresOfLength(n) : n \in 0..MaxSortRows}
    /\ customColumns = <<>>
    /\ columnWidths = [i \in 1..15 |-> 160]
    /\ selectedCell = NULL
    /\ selectedCells = {}
    /\ isMultiSelect = FALSE
    /\ editingCell = NULL
    /\ editValue = EmptyString
    /\ contextMenu = NULL
    /\ hiddenFields = {}
    /\ sortField = NULL
    /\ sortOrder = NULL
    /\ filterField = NULL
    /\ filterValue = EmptyString
    /\ searchTerm = EmptyString

NextSort ==
    \E field \in {NULL, Some("dueDate"), Some("priority")} : handleSortSelect(field)

SpecSort == InitSort /\ [][NextSort]_vars

\* the search over a store whose cells are edited and whose columns are
\* added and hidden
NextSearch ==
    \/ \E columnName \in PromptInputs : addColumn(columnName)
    \/ \E colIndex \in PointerCols : handleCellDoubleClick(data[1].id, colIndex)
    \/ \E value \in EditInputs : handleEditChange(value)
    \/ saveEdit
    \/ \E term \in SearchInputs : handleSearch(term)
    \/ \E fieldKey \in HideChoices : handleFieldVisibilityToggle(fieldKey)

SpecSearch == Init /\ [][NextSearch]_vars

\* the context menu's row actions on the rows of a sorted and filtered view
NextMenu ==
    \/ \E field \in {NULL, Some("priority")} : handleSortSelect(field)
    \/ \E pendingFilterValue \in {EmptyString, <<"T">>} :
          handleApplyFilter(Some("status"), pendingFilterValue)
    \/ \E type \in {"cell", "row"}, rowIndex \in RenderedRowIndexes :
          handleContextMenu(type, rowIndex, 0)
    \/ \E rowId \in Ids(data) : handleCellSelection(rowId, 0, FALSE)
    \/ \E action \in {"deleteRow", "duplicateRow", "clearRow", "clearCell"} :
          handleContextAction(action, EmptyString, TRUE)
    \/ addRow

SpecMenu == Init /\ [][NextMenu]_vars

-----------------------------------------------------------------------------
(* Claims                                                                  *)

\* C1: after any sequence of row insertions, duplications and deletions
\* (deleting every row and adding rows again included), the ids of the rows
\* of the store are pairwise distinct.
C1_RowIdsDistinct ==
    \A i, j \in 1..Len(data) : i # j => data[i].id # data[j].id

\* C2: every row of the store has an entry for the field key of every column
\* of the registry, built-in and custom.
C2_RowsHaveEveryField ==
    \A i \in 1..Len(data), c \in 1..Len(allFields) : allFields[c] \in DOMAIN data[i]

\* a handler that adds a column ran with the prompt answered columnName
AddsColumn(columnName) ==
    \/ addColumn(columnName)
    \/ keyCtrlShiftC(columnName)
    \/ navigateCell("right", columnName) /\ selectedCell[1].col >= Len(visibleFields) - 1
    \/ handleContextAction("addColumnLeft", columnName, TRUE)
    \/ handleContextAction("addColumnRight", columnName, TRUE)

\* C8: adding a column whose derived field key is the key of a column already
\* in the registry is rejected: registry, widths and rows stay as they are.
C8_DuplicateFieldKeyRejected ==
    [][\A columnName \in PromptInputs :
          (/\ PromptAccepted(columnName)
           /\ FieldName(Trim(columnName)) \in Range(allFields)
           /\ AddsColumn(columnName))
          => UNCHANGED <<customColumns, columnWidths, data>>]_vars

\* C9: the nine built-in columns stay in the registry in their order, and
\* every row keeps its built-in fields, whatever columns are deleted.
C9_BuiltInsKept ==
    /\ SubSeq(allFields, 1, Len(fields)) = fields
    /\ \A i \in 1..Len(data), c \in 1..Len(fields) : fields[c] \in DOMAIN data[i]

\* C10: a step that adds a custom column leaves the number of rows as it was
\* and gives every row the empty string under the new column's field key.
C10_AddColumnBackfills ==
    [][\A columnName \in PromptInputs, position \in 0..Len(customColumns) :
          (/\ PromptAccepted(columnName)
           /\ customColumns' = Splice(customColumns, position, Trim(columnName)))
          => /\ Len(data') = Len(data)
             /\ \A i \in 1..Len(data') :
                   /\ FieldName(Trim(columnName)) \in DOMAIN data'[i]
                   /\ data'[i][FieldName(Trim(columnName))] = EmptyString]_vars

\* C10 witness: a custom column is in the registry and every row of a
\* non-empty store holds the empty string under its field key
C10_Witness ==
    /\ customColumns # <<>>
    /\ Len(data) >= 2
    /\ \A i \in 1..Len(data) :
          /\ FieldName(customColumns[1]) \in DOMAIN data[i]
          /\ data[i][FieldName(customColumns[1])] = EmptyString

\* the cell reference names a row of the store and a visible column
CellRefValid(rowId, colIndex) ==
    rowId \in Ids(data) /\ colIndex >= 0 /\ colIndex < Len(visibleFields)

\* C3: the selected cell and every member of the multi-select set name a row
\* of the store and a column index below the number of visible columns.
C3_SelectionRefsValid ==
    /\ selectedCell # NULL => CellRefValid(selectedCell[1].row, selectedCell[1].col)
    /\ \A cellId \in selectedCells : CellRefValid(cellId[1], cellId[2])

\* C4: an active edit session names a row of the store and an existing
\* visible column.
C4_EditRefValid ==
    editingCell # NULL => CellRefValid(editingCell[1].row, editingCell[1].col)

\* C5: the single selection and the multi-select set are never both set.
C5_SelectionsExclusive == ~(selectedCell # NULL /\ selectedCells # {})

\* C6: committing an edit leaves the draft as the value of the edited field
\* of the edited row, and with the draft equal to the value the edit began
\* with it leaves the row store as it was.
C6_EditRoundTrip ==
    [][saveEdit =>
         LET rowId == editingCell[1].row
             field == VisibleField(editingCell[1].col)
         IN  /\ \A i \in 1..Len(data) :
                   data[i].id = rowId =>
                      field \in DOMAIN data'[i] /\ data'[i][field] = editValue
             /\ editValue = getCellValue(rowId, editingCell[1].col) => data' = data]_vars

\* a step that ends the edit session without committing it
EndsEditWithoutCommit == editingCell # NULL /\ editingCell' = NULL /\ ~saveEdit

DisplayedColumn(colIndex) ==
    SelectSeq([i \in 1..Len(allFields) |-> i],
              LAMBDA i : allFields[i] \notin hiddenFields)[colIndex + 1]

\* C11: a confirmed Delete Column from the context menu of a displayed custom
\* column removes the column displayed at the captured index: its label
\* leaves the registry and every other label stays, no row keeps its field,
\* and one width entry is removed.
C11_DeleteColumnRemovesDisplayed ==
    [][(/\ handleContextAction("deleteColumn", EmptyString, TRUE)
        /\ contextMenu[1].colIndex < Len(visibleFields)
        /\ DisplayedColumn(contextMenu[1].colIndex) > Len(fields))
       => LET customColIndex ==
                  DisplayedColumn(contextMenu[1].colIndex) - Len(fields) - 1
          IN  /\ customColumns' = RemoveAt(customColumns, customColIndex)
              /\ \A i \in 1..Len(data') :
                    FieldName(customColumns[customColIndex + 1]) \notin DOMAIN data'[i]
              /\ Len(columnWidths') = Len(columnWidths) - 1]_vars

\* the row satisfies the filter predicate: the value of the filter field
\* equals the filter value (submitted, dueDate) or contains it (any other
\* field), letter case apart
SatisfiesFilter(row) ==
    LET value == ToLowerCase(CellString(row, filterField[1]))
        wanted == ToLowerCase(filterValue)
    IN  IF filterField[1] \in {"submitted", "dueDate"}
        THEN value = wanted
        ELSE \E i \in 0..(Len(value) - Len(wanted)) :
                \A j \in 1..Len(wanted) : value[i + j] = wanted[j]

\* the number of times row occurs in s
Occurrences(s, row) == Cardinality({i \in 1..Len(s) : s[i] = row})

\* C12: with a filter field and a non-empty filter value the view holds
\* exactly the rows of the store that satisfy the filter predicate, sorted or
\* not, and in store order when no sort is applied; with no filter the view
\* holds every row of the store.
C12_FilterExact ==
    LET kept == IF filterField # NULL /\ filterValue # EmptyString
                THEN SelectSeq(data, SatisfiesFilter) ELSE data
    IN  /\ Len(processedData) = Len(kept)
        /\ \A i \in 1..Len(kept) :
              Occurrences(processedData, kept[i]) = Occurrences(kept, kept[i])
        /\ (sortField = NULL \/ sortOrder = NULL) => processedData = kept

\* C12 witness: a filter typed in another letter case keeps some rows of the
\* store and drops others, and a sort puts the kept rows in another order
C12_Witness ==
    /\ filterField # NULL /\ filterValue # ToLowerCase(filterValue)
    /\ sortField # NULL /\ sortOrder # NULL
    /\ Len(processedData) >= 2 /\ Len(processedData) < Len(data)
    /\ processedData # filtered

\* the calendar date a DD-MM-YYYY text denotes, as a day number; NaN when the
\* text is not of that form
CalendarDate(value) ==
    LET parts == Split(value, "-")
    IN  IF /\ Len(parts) = 3
           /\ Len(parts[1]) = 2 /\ Len(parts[2]) = 2 /\ Len(parts[3]) = 4
           /\ \A i \in 1..3 : AllDigits(parts[i])
           /\ NumberValue(parts[2]) \in 1..12
           /\ NumberValue(parts[1]) \in 1..28
        THEN DayNumber(NumberValue(parts[3]), NumberValue(parts[2]),
                       NumberValue(parts[1]))
        ELSE NaN

\* the key the rows are to be ordered by under the sort field
OrderKey(row) ==
    LET f == sortField[1]
    IN  IF f \in {"submitted", "dueDate"} THEN CalendarDate(CellString(row, f))
        ELSE IF f = "estValue" THEN NumberKey(CellString(row, f))
        ELSE IF f = "priority" THEN PriorityKey(CellString(row, f))
        ELSE ToLowerCase(CellString(row, f))

\* the row has a key: its date field holds a date
HasOrderKey(row) ==
    sortField[1] \in {"submitted", "dueDate"} => OrderKey(row) # NaN

\* the key of a comes strictly before the key of b
OrderKeyBefore(a, b) ==
    IF sortField[1] \in {"submitted", "dueDate", "estValue", "priority"}
    THEN OrderKey(a) < OrderKey(b)
    ELSE StringLess(OrderKey(a), OrderKey(b))

\* C13: under a sort field and order the view is a permutation of the
\* filtered rows whose keys never decrease (asc) or never increase (desc)
\* from one row to a later one, the rows whose date field holds no date
\* aside.
C13_SortedByKey ==
    (sortField # NULL /\ sortOrder # NULL) =>
        /\ Len(processedData) = Len(filtered)
        /\ \A i \in 1..Len(filtered) :
              Occurrences(processedData, filtered[i]) = Occurrences(filtered, filtered[i])
        /\ \A i, j \in 1..Len(processedData) :
              (i < j /\ HasOrderKey(processedData[i]) /\ HasOrderKey(processedData[j]))
              => IF sortOrder = Some("asc")
                 THEN ~OrderKeyBefore(processedData[j], processedData[i])
                 ELSE ~OrderKeyBefore(processedData[i], processedData[j])

\* C14: under a sort, two rows of the view whose sort keys are equal are in
\* the order in which the filtered, unsorted store holds them.
C14_SortStable ==
    (sortField # NULL /\ sortOrder # NULL) =>
        LET view == processedData
            unsorted == filtered
        IN  \A i, j \in 1..Len(view) :
                (/\ i < j
                 /\ HasOrderKey(view[i]) /\ HasOrderKey(view[j])
                 /\ OrderKey(view[i]) = OrderKey(view[j]))
                => FindIndex(unsorted, view[i].id) < FindIndex(unsorted, view[j].id)

\* C15: a step that changes what the view is derived from (sort, filter,
\* search term), and with it the processed view and the search matches,
\* leaves the rows of the store (their order, ids and field values)
\* and the column registry as they were.
C15_DerivationKeepsStore ==
    [][props' # props => (data' = data /\ customColumns' = customColumns)]_vars

\* C15 witness: the view is derived from a store of several rows under a
\* filter and a sort, its rows are in another order than the store's, and
\* the search counts matches in it
C15_Witness ==
    /\ filterField # NULL /\ sortField # NULL /\ sortOrder # NULL
    /\ Len(processedData) >= 2
    /\ processedData # filtered
    /\ searchResultsCount > 0

\* the text contains the term, letter case apart
ContainsIgnoringCase(text, term) ==
    \E i \in 0..(Len(text) - Len(term)) :
        \A j \in 1..Len(term) : ToLowerChar(text[i + j]) = ToLowerChar(term[j])

\* C16: the search match count is the number of pairs of a row of the view
\* and a visible field whose value in the row contains the search term,
\* letter case apart; it is 0 for an empty or white-space search term.
C16_SearchCount ==
    searchResultsCount =
        IF Trim(searchTerm) = EmptyString THEN 0
        ELSE Cardinality({ pair \in (1..Len(processedData)) \X Range(visibleFields) :
                 ContainsIgnoringCase(CellString(processedData[pair[1]], pair[2]),
                                      searchTerm) })

\* a batch action of the toolbar ran to completion
BatchCompletes(action) ==
    handleBatchAction(action, TRUE)

\* C17: when a batch delete, duplicate or clear has completed, the
\* multi-select set is empty and the selection is Idle: no cell is selected
\* and the component is not in multi-select mode.
C17_BatchEndsIdle ==
    [][\A action \in {"deleteRows", "duplicateRows", "clearRows"} :
          BatchCompletes(action)
          => (selectedCells' = {} /\ ~isMultiSelect' /\ selectedCell' = NULL)]_vars

\* the distinct row ids of the multi-select set that rows of the store have
SelectedRowIds == {cellId[1] : cellId \in selectedCells} \cap Ids(data)

\* the step appends one copy for each of SelectedRowIds, equal to its
\* source row but for the id, with the ids max+1, max+2, ... in sequence
AppendsCopies ==
    LET old == Len(data)
        copies == Len(data') - Len(data)
    IN  /\ copies = Cardinality(SelectedRowIds)
        /\ SubSeq(data', 1, old) = data
        /\ \A k \in 1..copies :
              data'[old + k].id = Plus(MathMax(Ids(data)), k)
        /\ \E source \in [1..copies -> SelectedRowIds] :
              /\ \A k, l \in 1..copies : k # l => source[k] # source[l]
              /\ \A k \in 1..copies :
                    \E i \in 1..old :
                       /\ data[i].id = source[k]
                       /\ data'[old + k] = Put(data[i], "id", data'[old + k].id)

\* C18: a batch duplicate appends one copy for each distinct selected row id
\* that the store holds; a copy equals its source row but for the id, and the
\* copies get the ids max+1, max+2, ... in sequence above the greatest id
\* the store held.
C18_BatchDuplicate ==
    [][BatchCompletes("duplicateRows") => AppendsCopies]_vars

\* the row ids that occur in the multi-select set
RowIdsOfSelection == {cellId[1] : cellId \in selectedCells}

\* the step removes the rows whose ids occur in the set, and no other
RemovesSelectedRows ==
    data' = SelectSeq(data, LAMBDA row : row.id \notin RowIdsOfSelection)

\* the step empties every field but the id of the rows whose ids occur in
\* the set, and changes no other row
ClearsSelectedRows ==
    /\ Len(data') = Len(data)
    /\ \A i \in 1..Len(data) :
          IF data[i].id \in RowIdsOfSelection
          THEN /\ DOMAIN data'[i] = DOMAIN data[i]
               /\ data'[i].id = data[i].id
               /\ \A field \in DOMAIN data[i] \ {"id"} :
                     data'[i][field] = EmptyString
          ELSE data'[i] = data[i]

\* C19: a batch delete removes the rows whose ids occur in the multi-select
\* set and no other, and a batch clear sets every field but the id of those
\* rows, and of no other, to the empty string; the other rows keep their id,
\* their field values and their order.
C19_BatchDeleteAndClear ==
    [][/\ BatchCompletes("deleteRows") => RemovesSelectedRows
       /\ BatchCompletes("clearRows") => ClearsSelectedRows]_vars

\* the step applies the row action to the row at position p of the store,
\* and to no other row
AppliesToRow(action, p, colIndex) ==
    CASE action = "deleteRow" -> data' = RemoveAt(data, p - 1)
      [] action = "duplicateRow" ->
            /\ Len(data') = Len(data) + 1
            /\ SubSeq(data', 1, Len(data)) = data
            /\ Put(data'[Len(data')], "id", data[p].id) = data[p]
      [] action = "clearRow" ->
            data' = [data EXCEPT ![p] =
                        [k \in DOMAIN data[p] |->
                            IF k = "id" THEN data[p].id ELSE EmptyString]]
      [] action = "clearCell" ->
            data' = [data EXCEPT ![p] =
                        Put(data[p], VisibleField(colIndex), EmptyString)]

\* a row action of the menu taken in this step acts on the row the view
\* shows at the menu's row index
ActsOnDisplayedRow ==
    \A action \in {"deleteRow", "duplicateRow", "clearRow", "clearCell"} :
        (/\ handleContextAction(action, EmptyString, TRUE)
         /\ contextMenu[1].rowIndex < Len(processedData))
        => \E p \in 1..Len(data) :
              /\ data[p] = processedData[contextMenu[1].rowIndex + 1]
              /\ AppliesToRow(action, p,
                              IF action = "clearCell"
                              THEN contextMenu[1].colIndex ELSE 0)

\* C20: a row action of the context menu is applied to the row that the
\* processed view shows at the row index the menu was opened with, whatever
\* the filter, the sort and the selection, and to no other row.
C20_MenuActsOnDisplayedRow == [][ActsOnDisplayedRow]_vars

\* the handlers that can turn a mutation down, among selections and
\* deletions of the selected row
NextReject ==
    \/ \E columnName \in {EmptyString, <<" ">>, <<"A","b">>} : addColumn(columnName)
    \/ \E columnName \in {EmptyString, <<"A","b">>} : keyCtrlShiftC(columnName)
    \/ \E rowId \in Ids(data), colIndex \in {0, Len(visibleFields) - 1},
          ctrlKey \in BOOLEAN : handleCellSelection(rowId, colIndex, ctrlKey)
    \/ \E columnName \in {EmptyString, <<"A","b">>} : navigateCell("right", columnName)
    \/ \E colIndex \in PointerCols : handleContextMenu("column", 0, colIndex)
    \/ \E action \in {"addColumnLeft", "addColumnRight", "deleteColumn"},
          columnName \in {EmptyString, <<"A","b">>}, confirmed \in BOOLEAN :
          handleContextAction(action, columnName, confirmed)
    \/ \E confirmed \in BOOLEAN : handleBatchAction("deleteRows", confirmed)
    \/ keyShiftDelete
    \/ toolbarDeleteRow

SpecReject == Init /\ [][NextReject]_vars

\* a mutation that the component turns down: a column whose name prompt was
\* left empty or cancelled, the deletion of a built-in column, a deletion
\* whose confirm dialog was declined, the deletion of a row that is gone
RejectedMutation ==
    \/ \E columnName \in {EmptyString, <<" ">>} :
          \/ addColumn(columnName)
          \/ keyCtrlShiftC(columnName)
          \/ /\ selectedCell # NULL
             /\ selectedCell[1].col >= Len(visibleFields) - 1
             /\ navigateCell("right", columnName)
          \/ handleContextAction("addColumnLeft", columnName, TRUE)
          \/ handleContextAction("addColumnRight", columnName, TRUE)
    \/ \E confirmed \in BOOLEAN :
          /\ contextMenu # NULL
          /\ contextMenu[1].type = "column"
          /\ contextMenu[1].colIndex < Len(fields) \/ ~confirmed
          /\ handleContextAction("deleteColumn", EmptyString, confirmed)
    \/ handleBatchAction("deleteRows", FALSE)
    \/ /\ selectedCell # NULL
       /\ selectedCell[1].row \notin Ids(data)
       /\ keyShiftDelete \/ toolbarDeleteRow

\* C21: a mutation that is rejected or declined leaves the row store, the
\* column registry, the column widths and the selection and edit state as
\* they were
C21_RejectedKeepsState ==
    [][RejectedMutation =>
          UNCHANGED <<data, customColumns, columnWidths, selectedCell,
                      selectedCells, isMultiSelect, editingCell, editValue>>]_vars

\* the insertion of rows: the "+" row button, Ctrl+Shift+R, ArrowDown on the
\* last row and the menu's Add Row Above / Below, among row deletions
NextInsert ==
    \/ addRow
    \/ keyCtrlShiftR
    \/ \E rowId \in Ids(data) : handleCellSelection(rowId, 0, FALSE)
    \/ navigateCell("down", EmptyString)
    \/ \E type \in {"cell", "row"}, rowIndex \in RenderedRowIndexes :
          handleContextMenu(type, rowIndex, 0)
    \/ \E action \in {"addRowAbove", "addRowBelow", "deleteRow"} :
          handleContextAction(action, EmptyString, TRUE)

SpecInsert == Init /\ [][NextInsert]_vars

\* the store after the step holds one row more, the new one at the 0-based
\* index position, and the rows it held before in their order
InsertedAt(position) ==
    /\ Len(data') = Len(data) + 1
    /\ data'[position + 1].id = NewId(data)
    /\ \A i \in 1..Len(data) : data'[IF i <= position THEN i ELSE i + 1] = data[i]

\* ArrowDown (or Enter) on the last row of the view, which calls addRow()
NavigatesPastLast ==
    /\ selectedCell # NULL
    /\ FindIndex(processedData, selectedCell[1].row) >= Len(processedData) - 1
    /\ navigateCell("down", EmptyString)

\* the menu's Add Row Above / Add Row Below calling addRowAt(position)
MenuInsertsAt(position) ==
    /\ contextMenu # NULL
    /\ contextMenu[1].type \in {"cell", "row"}
    /\ \/ /\ contextMenu[1].rowIndex = position
          /\ handleContextAction("addRowAbove", EmptyString, TRUE)
       \/ /\ contextMenu[1].rowIndex + 1 = position
          /\ handleContextAction("addRowBelow", EmptyString, TRUE)

\* C22: a row inserted with a position below the row count is placed at that
\* index of the store, a row inserted with no position or with one not below
\* the row count is appended, and the rows there before keep their ids, their
\* values and their order
C22_InsertPlacesRow ==
    [][/\ (addRow \/ keyCtrlShiftR \/ NavigatesPastLast) => InsertedAt(Len(data))
       /\ \A position \in 0..MaxRows :
             MenuInsertsAt(position) =>
                InsertedAt(IF position < Len(data) THEN position ELSE Len(data))]_vars

\* a row was inserted between the two sample rows
C22_Witness ==
    /\ Len(data) = 3
    /\ data[1] = mockSpreadsheetData[1]
    /\ data[3] = mockSpreadsheetData[2]
    /\ data[2].id = 3

\* keyboard navigation over a sorted view whose rows are deleted and inserted
NextNavigate ==
    \/ \E field \in {NULL, Some("priority")} : handleSortSelect(field)
    \/ \E rowId \in Ids(data), colIndex \in {0, 1} :
          handleCellSelection(rowId, colIndex, FALSE)
    \/ \E direction \in {"up", "down", "left", "right"} :
          navigateCell(direction, EmptyString)
    \/ keyShiftDelete

SpecNavigate == Init /\ [][NextNavigate]_vars

\* an arrow key pressed while the selected cell is shown in the row at the
\* 1-based position k of the view
NavigatesFrom(direction, k) ==
    /\ selectedCell # NULL
    /\ k \in 1..Len(processedData)
    /\ processedData[k].id = selectedCell[1].row
    /\ navigateCell(direction, EmptyString)

\* the selection after the step names the row rowId in the column it was in
SelectionMovedTo(rowId) ==
    selectedCell' = Some([row |-> rowId, col |-> selectedCell[1].col])

\* one row was inserted into the store and the selection names it
InsertedAndSelected ==
    \E p \in 0..Len(data) :
        /\ Len(data') = Len(data) + 1
        /\ RemoveAt(data', p) = data
        /\ SelectionMovedTo(data'[p + 1].id)

\* ArrowDown can be pressed with the selection shown in the last row of the
\* view and room for one more row
CanMoveDownFromLast ==
    /\ editingCell = NULL
    /\ selectedCell # NULL
    /\ processedData # <<>>
    /\ processedData[Len(processedData)].id = selectedCell[1].row
    /\ CanInsert(1)

\* C23: an arrow key moves the selection to the row above or below in the
\* view; ArrowDown on the last row of the view inserts one row and selects it
\* in the same column; ArrowUp on the first row and ArrowLeft in the first
\* column leave the selection as it was
C23_ArrowKeysMoveInView ==
    /\ [][\A k \in 1..MaxRows :
             /\ NavigatesFrom("up", k) =>
                   /\ data' = data
                   /\ IF k > 1 THEN SelectionMovedTo(processedData[k - 1].id)
                      ELSE selectedCell' = selectedCell
             /\ NavigatesFrom("down", k) =>
                   IF k < Len(processedData)
                   THEN data' = data /\ SelectionMovedTo(processedData[k + 1].id)
                   ELSE InsertedAndSelected
             /\ (NavigatesFrom("left", k) /\ selectedCell[1].col = 0) =>
                   selectedCell' = selectedCell /\ data' = data]_vars
    /\ [](CanMoveDownFromLast =>
             ENABLED (navigateCell("down", EmptyString) /\ InsertedAndSelected))



\* clicks, modifier-clicks and double-clicks on the cells, with an edit
\* session begun, typed into and committed in between
NextClick ==
    \/ \E rowId \in Ids(data), colIndex \in PointerCols, ctrlKey \in BOOLEAN :
          handleCellSelection(rowId, colIndex, ctrlKey)
    \/ \E rowId \in Ids(data), colIndex \in PointerCols :
          handleCellDoubleClick(rowId, colIndex)
    \/ \E value \in EditInputs : handleEditChange(value)
    \/ saveEdit
    \/ cancelEdit

SpecClick == Init /\ [][NextClick]_vars

\* the step ends the edit session with the draft written to the edited cell
CommitsEdit ==
    /\ editingCell' = NULL
    /\ \A i \in 1..Len(data) :
          data[i].id = editingCell[1].row =>
             CellString(data'[i], VisibleField(editingCell[1].col)) = editValue

\* C24: a plain click on a cell makes it the single selection, and when an
\* edit session is active the click first commits it: the draft is written
\* to the edited cell and the session ends
C24_ClickCommitsThenSelects ==
    [][\A rowId \in Ids(data), colIndex \in PointerCols :
          handleCellSelection(rowId, colIndex, FALSE) =>
             /\ selectedCell' = Some([row |-> rowId, col |-> colIndex])
             /\ editingCell # NULL => CommitsEdit]_vars



\* double-clicks on the first column, with the draft typed and committed in
\* between, over a store whose rows are deleted and inserted
NextDoubleClick ==
    \/ \E rowId \in Ids(data) : handleCellDoubleClick(rowId, 0)
    \/ \E value \in EditInputs : handleEditChange(value)
    \/ saveEdit
    \/ \E rowId \in Ids(data) : handleCellSelection(rowId, 0, FALSE)
    \/ toolbarDeleteRow
    \/ addRow

SpecDoubleClick == Init /\ [][NextDoubleClick]_vars

\* C25: a double-click on a cell while another cell is being edited first
\* commits that edit, its draft written to its cell, and then starts an edit
\* session on the double-clicked cell whose draft is that cell's value in the
\* row store
C25_DoubleClickCommitsThenEdits ==
    [][\A rowId \in Ids(data), colIndex \in PointerCols :
          handleCellDoubleClick(rowId, colIndex) =>
             /\ (/\ editingCell # NULL
                 /\ editingCell # Some([row |-> rowId, col |-> colIndex])) =>
                   \A i \in 1..Len(data) :
                       data[i].id = editingCell[1].row =>
                          CellString(data'[i], VisibleField(editingCell[1].col))
                             = editValue
             /\ editingCell' = Some([row |-> rowId, col |-> colIndex])
             /\ \A i \in 1..Len(data') :
                   data'[i].id = rowId =>
                      editValue' = CellString(data'[i], VisibleField(colIndex))]_vars



\* the selection machine's state Idle: nothing selected and nothing edited
Idle ==
    /\ selectedCell = NULL
    /\ selectedCells = {}
    /\ ~isMultiSelect
    /\ editingCell = NULL

\* C26: a modifier-click toggles the clicked cell in the multi-select set and
\* changes no other member; afterwards the machine is MultiSelected exactly
\* when the set is non-empty, and Idle when the set became empty
C26_ModifierClickToggles ==
    [][\A rowId \in Ids(data), colIndex \in PointerCols :
          handleCellSelection(rowId, colIndex, TRUE) =>
             /\ selectedCells' \ {<<rowId, colIndex>>}
                   = selectedCells \ {<<rowId, colIndex>>}
             /\ (<<rowId, colIndex>> \in selectedCells')
                   <=> (<<rowId, colIndex>> \notin selectedCells)
             /\ isMultiSelect' <=> (selectedCells' # {})
             /\ selectedCells' = {} => Idle']_vars



\* the menu's Add Row Above / Below on the rows of a sorted and filtered view
NextMenuInsert ==
    \/ \E field \in {NULL, Some("priority")} : handleSortSelect(field)
    \/ \E pendingFilterValue \in {EmptyString, <<"M">>} :
          handleApplyFilter(Some("priority"), pendingFilterValue)
    \/ \E type \in {"cell", "row"}, rowIndex \in RenderedRowIndexes :
          handleContextMenu(type, rowIndex, 0)
    \/ \E action \in {"addRowAbove", "addRowBelow", "deleteRow"} :
          handleContextAction(action, EmptyString, TRUE)

SpecMenuInsert == Init /\ [][NextMenuInsert]_vars

\* the menu item action chosen in a menu opened on a row of the view
MenuInsertChosen(action) ==
    /\ contextMenu # NULL
    /\ contextMenu[1].type \in {"cell", "row"}
    /\ contextMenu[1].rowIndex < Len(processedData)
    /\ handleContextAction(action, EmptyString, TRUE)

\* the store after the step holds the new row next to the row the menu was
\* opened on: before it (offset 0) or after it (offset 1)
InsertedNextToDisplayed(offset) ==
    \E j \in 1..Len(data) :
        /\ data[j].id = processedData[contextMenu[1].rowIndex + 1].id
        /\ Len(data') = Len(data) + 1
        /\ data'[j + offset].id = NewId(data)
        /\ data'[j + 1 - offset] = data[j]

\* C27: Add Row Above / Add Row Below chosen on the row displayed at a view
\* index inserts the new row immediately before / after that row in the
\* order of the store, under any filter or sort
C27_AddRowNextToDisplayedRow ==
    [][/\ MenuInsertChosen("addRowAbove") => InsertedNextToDisplayed(0)
       /\ MenuInsertChosen("addRowBelow") => InsertedNextToDisplayed(1)]_vars



\* the comparator of the sort on two rows
CompareRows(a, b) == Compare(SortKey(a), SortKey(b))

\* C28: the sort comparator is a consistent ordering of the rows, malformed
\* keys included: comparing b with a negates comparing a with b, and both
\* "before" and "equal" are transitive
C28_ComparatorConsistent ==
    (sortField # NULL /\ sortOrder # NULL) =>
       \A a, b, c \in Range(data) :
          /\ CompareRows(a, b) = 0 - CompareRows(b, a)
          /\ (CompareRows(a, b) < 0 /\ CompareRows(b, c) < 0) => CompareRows(a, c) < 0
          /\ (CompareRows(a, b) = 0 /\ CompareRows(b, c) = 0) => CompareRows(a, c) = 0
          /\ (CompareRows(a, b) = 0 /\ CompareRows(b, c) < 0) => CompareRows(a, c) < 0
          /\ (CompareRows(a, b) < 0 /\ CompareRows(b, c) = 0) => CompareRows(a, c) < 0



\* the commit writes the draft to the field that the edited column index
\* names, in the edited row, and changes no other field of any row
CommitWritesEditedCell ==
    LET field == VisibleField(editingCell[1].col)
    IN  /\ Len(data') = Len(data)
        /\ \A i \in 1..Len(data) :
              /\ DOMAIN data'[i] \ {field} = DOMAIN data[i] \ {field}
              /\ \A k \in DOMAIN data[i] \ {field} : data'[i][k] = data[i][k]
              /\ IF data[i].id = editingCell[1].row
                 THEN data'[i][field] = editValue
                 ELSE data'[i] = data[i]

\* C29: a commit writes the draft to the row and field whose value seeded it
\* at begin-edit and changes no other field of any row: the commit writes
\* the cell that the edited column index names, and while the session lasts
\* that index names the same field, whatever is hidden or shown meanwhile
C29_CommitTargetsSeedCell ==
    [][/\ saveEdit => CommitWritesEditedCell
       /\ (editingCell # NULL /\ editingCell' = editingCell) =>
             VisibleField(editingCell[1].col)' = VisibleField(editingCell[1].col)]_vars



\* the keyboard commands of the document listener, among clicks and edit
\* sessions
NextKeys ==
    \/ \E rowId \in Ids(data) : handleCellSelection(rowId, 0, FALSE)
    \/ \E rowId \in Ids(data) : handleCellDoubleClick(rowId, 0)
    \/ \E value \in EditInputs : handleEditChange(value)
    \/ saveEdit
    \/ cancelEdit
    \/ \E direction \in {"up", "down", "left"} :
          navigateCell(direction, EmptyString)
    \/ keyDelete
    \/ keyShiftDelete
    \/ keyCtrlShiftR
    \/ selectAll
    \/ keyEscape

SpecKeys == Init /\ [][NextKeys]_vars

\* a key press that the document listener handles: the arrow keys, Delete,
\* Shift+Delete, Ctrl+Shift+R, Ctrl+Shift+C, Ctrl+A and Escape
KeyCommand ==
    \/ \E direction \in {"up", "down", "left", "right"},
          columnName \in {EmptyString, <<"A","b">>} :
          navigateCell(direction, columnName)
    \/ keyDelete
    \/ keyShiftDelete
    \/ keyCtrlShiftR
    \/ \E columnName \in {EmptyString, <<"A","b">>} : keyCtrlShiftC(columnName)
    \/ selectAll
    \/ keyEscape

====
